---- MODULE Spec2Model ----
(***************************************************************************)
(* Gommerce: the checkout / order-history flow of the cart service, the    *)
(* catalog and order stores it drives, and the bearer-token check in front *)
(* of it.                                                                  *)
(*                                                                         *)
(* Tables are sequences of rows in insertion order (AUTO_INCREMENT ids are *)
(* row positions).  A handler is a goroutine per request: its position is  *)
(* pc[p], its local variables loc[p], and it is cut into steps at its      *)
(* storage calls, which are the only points where requests interact.       *)
(* Prices and totals are amounts in minor units (the float64 arithmetic of *)
(* the source is exact on them).                                           *)
(***************************************************************************)
EXTENDS Integers, Sequences, FiniteSets, TLC

VARIABLES
    products,     \* table products: id -> row, for the ids that exist
    orders,       \* table orders: sequence of rows, id = position
    orderItems,   \* table order_items: sequence of rows, id = position
    users,        \* table users: sequence of rows, id = position
    now,          \* wall clock, seconds
    req,          \* req[p]: the HTTP request goroutine p is serving
    pc,           \* pc[p]: position of goroutine p in its handler
    loc,          \* loc[p]: local variables of the handler
    resp,         \* resp[p]: what has been written to the ResponseWriter
    calls,        \* calls[p]: storage calls issued so far by the request
    faults        \* storage calls that have failed so far

vars == <<products, orders, orderItems, users, now, req, pc, loc, resp, calls, faults>>

(***************************************************************************)
(* Bounds                                                                  *)
(***************************************************************************)
MaxCart == 2      \* longest cart of a request
MaxTime == 2      \* last instant of the clock
MaxOrders == 2    \* order headers the system run inserts at most
MaxFaults == 1    \* storage calls that fail in one run, at most

(***************************************************************************)
(* Program constants                                                       *)
(***************************************************************************)
JWTExpiration == 604800
JWTSecret == "secret"

StatusOK == 200
StatusCreated == 201
StatusBadRequest == 400
StatusUnauthorized == 401
StatusInternalServerError == 500

(***************************************************************************)
(* Sequence helpers                                                        *)
(***************************************************************************)
Range(s) == {s[i] : i \in 1..Len(s)}

SeqsUpTo(S, n) == UNION {[1..k -> S] : k \in 0..n}

Perms(S) == {s \in [1..Cardinality(S) -> S] : Range(s) = S}

RECURSIVE SumSeq(_)
SumSeq(s) == IF s = <<>> THEN 0 ELSE s[1] + SumSeq(Tail(s))

(***************************************************************************)
(* Input domains                                                           *)
(***************************************************************************)
Procs == {1, 2}
Users == {1, 2}
ProductIDs == {1, 2, 3}
Quantities == {-1, 0, 1, 2}
Addresses == {"", "12 Main St"}

CartItems == [ProductID : ProductIDs, Quantity : Quantities]
Carts == SeqsUpTo(CartItems, MaxCart)

\* strconv.Itoa / strconv.Atoi on the user ids of the model
Itoa(n) == CASE n = 1 -> "1" [] n = 2 -> "2" [] OTHER -> "0"
AtoiOK(s) == s \in {"0", "1", "2"}
Atoi(s) == CASE s = "1" -> 1 [] s = "2" -> 2 [] OTHER -> 0


(***************************************************************************)
(* Tokens (services/auth: CreateJWT, VerifyJWT)                            *)
(***************************************************************************)
\* The claims and header a compact token string decodes to.
CreateJWT(secret, userId, at) ==
    [alg |-> "HS256", key |-> secret,
     userId |-> Itoa(userId), expiredAt |-> at + JWTExpiration]

\* Token strings a client may present, with what jwt.Parse reads in them.
\* tokShort was issued so that it expires at instant 1.
JWTs ==
    [t \in {"tokU1", "tokU2", "tokShort", "tokForged", "tokRS256", "tokNoUser"} |->
       CASE t = "tokU1"     -> CreateJWT(JWTSecret, 1, 0)
         [] t = "tokU2"     -> CreateJWT(JWTSecret, 2, 0)
         [] t = "tokShort"  -> CreateJWT(JWTSecret, 1, 1 - JWTExpiration)
         [] t = "tokForged" -> CreateJWT("other", 1, 0)
         [] t = "tokRS256"  -> [CreateJWT(JWTSecret, 1, 0) EXCEPT !.alg = "RS256"]
         [] t = "tokNoUser" -> [CreateJWT(JWTSecret, 1, 0) EXCEPT !.userId = "abc"]]

HMACAlgs == {"HS256", "HS384", "HS512"}

AuthResult(err, userId) == [err |-> err, userId |-> userId]

\* variant: the token is refused from the second of its expiry on
VerifyParsedEarly(token, secret, t) ==
    IF token.alg \notin HMACAlgs
      THEN AuthResult("invalid token: unexpected signing method", 0)
    ELSE IF token.key # secret
      THEN AuthResult("invalid token: signature is invalid", 0)
    ELSE IF t >= token.expiredAt
      THEN AuthResult("token has expired", 0)
    ELSE IF ~AtoiOK(token.userId)
      THEN AuthResult("invalid userId format", 0)
    ELSE AuthResult("", Atoi(token.userId))

\* the checks of VerifyJWT on what jwt.Parse decoded: the keyfunc's signing
\* method test, the signature, the expiredAt claim and the userId claim
VerifyParsed(token, secret, t) ==
    IF token.alg \notin HMACAlgs
      THEN AuthResult("invalid token: unexpected signing method", 0)
    ELSE IF token.key # secret
      THEN AuthResult("invalid token: signature is invalid", 0)
    ELSE IF t > token.expiredAt
      THEN AuthResult("token has expired", 0)
    ELSE IF ~AtoiOK(token.userId)
      THEN AuthResult("invalid userId format", 0)
    ELSE AuthResult("", Atoi(token.userId))

VerifyJWT(tokenString, secret, t) ==
    IF tokenString \notin DOMAIN JWTs
      THEN AuthResult("invalid token: token is malformed", 0)
    ELSE VerifyParsed(JWTs[tokenString], secret, t)

(***************************************************************************)
(* utils: AuthenticateRequest, ParseJSON, Validate.Struct                  *)
(***************************************************************************)
\* (variant: the scheme word is not compared with "Bearer")
AuthenticateRequestAnyScheme(header, t) ==
    IF header = <<>>
      THEN AuthResult("authorization header is required", 0)
    ELSE IF Len(header) # 2
      THEN AuthResult("invalid authorization header format", 0)
    ELSE LET v == VerifyJWT(header[2], JWTSecret, t) IN
      IF v.err # "" THEN AuthResult("invalid token: " \o v.err, 0)
      ELSE AuthResult("", v.userId)

\* header: the Authorization header split at spaces; <<>> is the absent
\* (empty) header.
AuthenticateRequest(header, t) ==
    IF header = <<>>
      THEN AuthResult("authorization header is required", 0)
    ELSE IF Len(header) # 2 \/ header[1] # "Bearer"
      THEN AuthResult("invalid authorization header format", 0)
    ELSE LET v == VerifyJWT(header[2], JWTSecret, t) IN
      IF v.err # "" THEN AuthResult("invalid token: " \o v.err, 0)
      ELSE AuthResult("", v.userId)

\* A Go slice: nil or a (possibly empty) list.
NilSlice == [nil |-> TRUE, elems |-> <<>>]
Slice(s) == [nil |-> FALSE, elems |-> s]

ZeroPayload == [Items |-> NilSlice, Address |-> ""]

\* json.Decode into CartCheckoutPayload: only "items" and "address" are
\* read, an absent "items" leaves the slice nil, any other member of the
\* object (here "userID") is dropped.
ParseJSON(body) ==
    IF ~body.json
      THEN [err |-> "invalid character", cart |-> ZeroPayload]
      ELSE [err |-> "",
            cart |-> [Items |-> IF body.hasItems THEN Slice(body.items) ELSE NilSlice,
                      Address |-> body.address]]

\* validator tags of CartCheckoutPayload: Items `required,min=1`,
\* Address `required`.  All failing fields are reported, in field order.
\* (variant: `required` alone, without `min=1`)
ItemsTagRequiredOnly(items) == IF items.nil THEN "required" ELSE ""

ItemsTag(items) ==
    IF items.nil THEN "required"
    ELSE IF Len(items.elems) < 1 THEN "min"
    ELSE ""

AddressTag(address) == IF address = "" THEN "required" ELSE ""

ValidateStruct(cart) ==
    LET it == ItemsTag(cart.Items)
        ad == AddressTag(cart.Address)
        e1 == IF it = "" THEN "" ELSE "Items:" \o it \o ";"
        e2 == IF ad = "" THEN "" ELSE "Address:" \o ad \o ";"
    IN  e1 \o e2


(***************************************************************************)
(* Stores (services/products Store, services/cart Store)                   *)
(***************************************************************************)
\* SELECT * FROM products WHERE id IN (ids): every matching row once, in an
\* order the query does not fix.  The set of possible results.
GetProductsByIDs(tbl, ids) ==
    IF Len(ids) = 0 THEN {<<>>}
    ELSE Perms({tbl[id] : id \in Range(ids) \cap DOMAIN tbl})

\* The orders table (its migration is not among the sources): createdAt is
\* not in the INSERT's column list, so the row takes the column default, the
\* current timestamp at the insert.
CreatedAtDefault(t) == t

\* variant: the id returned is not the id of the row just inserted
LastInsertIdOne(tbl) == 1

\* INSERT INTO orders (userId, total, status, address).  LastInsertId is the
\* new row's id.
LastInsertId(tbl) == Len(tbl) + 1

CreateOrder(tbl, order, t) ==
    Append(tbl, [id |-> LastInsertId(tbl), userId |-> order.UserID,
                 total |-> order.Total, status |-> order.Status,
                 address |-> order.Address, createdAt |-> CreatedAtDefault(t)])

\* INSERT INTO order_items (orderId, productId, quantity, price)
CreateOrderItem(tbl, orderItem) ==
    Append(tbl, [id |-> Len(tbl) + 1, orderId |-> orderItem.OrderID,
                 productId |-> orderItem.ProductID,
                 quantity |-> orderItem.Quantity, price |-> orderItem.Price])

(***************************************************************************)
(* Responses                                                               *)
(***************************************************************************)
ZeroOrder ==
    [ID |-> 0, UserID |-> 0, Total |-> 0, Status |-> "", Address |-> "",
     CreatedAt |-> 0, Items |-> <<>>]

NoResponse ==
    [status |-> 0, ctype |-> "", error |-> "", arg |-> 0, message |-> "",
     order |-> ZeroOrder, orders |-> <<>>]

\* http.Error(w, msg, code): a text/plain body holding the message.
HttpError(msg, arg, code) ==
    [NoResponse EXCEPT !.status = code, !.ctype = "text/plain",
                       !.error = msg, !.arg = arg]

\* utils.WriteJSON(w, code, {status: "success", message, data})
WriteJSON(code, message, order, orderList) ==
    [NoResponse EXCEPT !.status = code, !.ctype = "application/json",
                       !.message = message, !.order = order, !.orders = orderList]

(***************************************************************************)
(* Handler.handleCheckout, the local computations                          *)
(***************************************************************************)
ZeroLocals ==
    [userId |-> 0, cart |-> ZeroPayload, productIDs |-> <<>>,
     productMap |-> <<>>, total |-> 0, order |-> ZeroOrder, i |-> 0]

\* lines 48-51: one id per cart item, duplicates kept
CollectProductIDs(items) == [i \in 1..Len(items) |-> items[i].ProductID]

\* (variant: the check only asks that the read returned something)
ProductsFoundAny(found, productIDs) == Len(found) > 0

\* line 59: the existence check
ProductsFound(found, productIDs) == Len(found) = Len(productIDs)

\* lines 66-69
BuildProductMap(found) ==
    [id \in {found[i].ID : i \in 1..Len(found)} |->
        (CHOOSE r \in Range(found) : r.ID = id)]

\* (variant: the loop adds the unit price, forgetting the quantity)
RECURSIVE CheckItemsUnitPrice(_, _, _)
CheckItemsUnitPrice(items, productMap, total) ==
    IF items = <<>> THEN [err |-> "", arg |-> 0, total |-> total]
    ELSE LET item == Head(items) IN
      IF item.ProductID \notin DOMAIN productMap
        THEN [err |-> "product with ID %d not found", arg |-> item.ProductID, total |-> total]
      ELSE IF item.Quantity > productMap[item.ProductID].Quantity
        THEN [err |-> "insufficient quantity for product %d", arg |-> item.ProductID, total |-> total]
      ELSE CheckItemsUnitPrice(Tail(items), productMap,
                               total + productMap[item.ProductID].Price)

\* lines 71-82: the loop over the cart in input order; it stops at the first
\* item that is unknown or asks for more than the product's quantity.
RECURSIVE CheckItems(_, _, _)
CheckItems(items, productMap, total) ==
    IF items = <<>> THEN [err |-> "", arg |-> 0, total |-> total]
    ELSE LET item == Head(items) IN
      IF item.ProductID \notin DOMAIN productMap
        THEN [err |-> "product with ID %d not found", arg |-> item.ProductID, total |-> total]
      ELSE IF item.Quantity > productMap[item.ProductID].Quantity
        THEN [err |-> "insufficient quantity for product %d", arg |-> item.ProductID, total |-> total]
      ELSE CheckItems(Tail(items), productMap,
                      total + productMap[item.ProductID].Price * item.Quantity)

\* variant: the order is created as completed
NewOrderCompleted(userId, total, address, t) ==
    [ID |-> 0, UserID |-> userId, Total |-> total, Status |-> "completed",
     Address |-> address, CreatedAt |-> t, Items |-> <<>>]

\* lines 85-91
NewOrder(userId, total, address, t) ==
    [ID |-> 0, UserID |-> userId, Total |-> total, Status |-> "pending",
     Address |-> address, CreatedAt |-> t, Items |-> <<>>]

\* (variant: the item takes the product's quantity, not the requested one)
NewOrderItemStock(order, item, product) ==
    [OrderID |-> order.ID, ProductID |-> product.ID,
     Quantity |-> product.Quantity, Price |-> product.Price]

\* lines 103-109
NewOrderItem(order, item, product) ==
    [OrderID |-> order.ID, ProductID |-> product.ID,
     Quantity |-> item.Quantity, Price |-> product.Price]


(***************************************************************************)
(* Requests                                                                *)
(***************************************************************************)
NoBody == [json |-> TRUE, hasItems |-> FALSE, items |-> <<>>, address |-> "", userID |-> 0]

NoRequest == [kind |-> "none", header |-> <<>>, body |-> NoBody]

\* Authorization headers: absent, one word, another scheme, a third word,
\* and "Bearer <token>" for each token string and for a garbage string.
Headers ==
    {<<>>, <<"Bearer">>, <<"Basic", "tokU1">>, <<"Bearer", "tokU1", "x">>}
    \cup {<<"Bearer", t>> : t \in DOMAIN JWTs \cup {"garbage"}}

\* Request bodies of POST /order: not JSON, or an object with an optional
\* "items" list, an "address" (absent reads as "") and possibly a "userID"
\* member naming another user.
Bodies ==
    {[NoBody EXCEPT !.json = FALSE]}
    \cup {[json |-> TRUE, hasItems |-> FALSE, items |-> <<>>, address |-> a, userID |-> u] :
            a \in Addresses, u \in {0, 2}}
    \cup {[json |-> TRUE, hasItems |-> TRUE, items |-> c, address |-> a, userID |-> u] :
            c \in Carts, a \in Addresses, u \in {0, 2}}

CheckoutRequests == {[kind |-> "checkout", header |-> h, body |-> b] : h \in Headers, b \in Bodies}
OrdersRequests == {[kind |-> "orders", header |-> h, body |-> NoBody] : h \in Headers}

\* One storage call of a request, as the store saw it.
Call(op, ok, userId, orderId, productId, quantity, price) ==
    [op |-> op, ok |-> ok, userId |-> userId, orderId |-> orderId,
     productId |-> productId, quantity |-> quantity, price |-> price]

(***************************************************************************)
(* Handler.handleCheckout                                                  *)
(***************************************************************************)
Respond(p, r) ==
    /\ resp' = [resp EXCEPT ![p] = r]
    /\ pc' = [pc EXCEPT ![p] = "done"]

\* the storage call of this step returns an error
StorageFails ==
    /\ faults < MaxFaults
    /\ faults' = faults + 1

\* lines 32-51: authenticate, decode, validate, collect the product ids
handleCheckout_Begin(p) ==
    /\ pc[p] = "start"
    /\ req[p].kind = "checkout"
    /\ LET a == AuthenticateRequest(req[p].header, now)
           pj == ParseJSON(req[p].body)
           v == ValidateStruct(pj.cart)
       IN  IF a.err # ""
             THEN Respond(p, HttpError(a.err, 0, StatusUnauthorized)) /\ UNCHANGED loc
           ELSE IF pj.err # ""
             THEN Respond(p, HttpError(pj.err, 0, StatusBadRequest)) /\ UNCHANGED loc
           ELSE IF v # ""
             THEN Respond(p, HttpError(v, 0, StatusBadRequest)) /\ UNCHANGED loc
           ELSE /\ loc' = [loc EXCEPT ![p] =
                              [ZeroLocals EXCEPT !.userId = a.userId, !.cart = pj.cart,
                                 !.productIDs = CollectProductIDs(pj.cart.Items.elems)]]
                /\ pc' = [pc EXCEPT ![p] = "products"]
                /\ UNCHANGED resp
    /\ UNCHANGED <<users, products, orders, orderItems, now, req, calls, faults>>

\* lines 52-91: the catalog read, then the existence check, the quantity
\* check and the total, all on the rows this one read returned
handleCheckout_GetProducts(p) ==
    /\ pc[p] = "products"
    /\ \/ /\ StorageFails
          /\ calls' = [calls EXCEPT ![p] = Append(@, Call("GetProductsByIDs", FALSE, 0, 0, 0, 0, 0))]
          /\ Respond(p, HttpError("sql: error", 0, StatusInternalServerError))
          /\ UNCHANGED loc
       \/ \E found \in GetProductsByIDs(products, loc[p].productIDs) :
          /\ UNCHANGED faults
          /\ calls' = [calls EXCEPT ![p] = Append(@, Call("GetProductsByIDs", TRUE, 0, 0, 0, 0, 0))]
          /\ IF ~ProductsFound(found, loc[p].productIDs)
               THEN Respond(p, HttpError("one or more products not found", 0, StatusBadRequest))
                    /\ UNCHANGED loc
             ELSE LET productMap == BuildProductMap(found)
                      chk == CheckItems(loc[p].cart.Items.elems, productMap, 0)
                  IN  IF chk.err # ""
                        THEN Respond(p, HttpError(chk.err, chk.arg, StatusBadRequest))
                             /\ UNCHANGED loc
                      ELSE /\ loc' = [loc EXCEPT ![p].productMap = productMap,
                                                 ![p].total = chk.total,
                                                 ![p].order = NewOrder(loc[p].userId, chk.total,
                                                                       loc[p].cart.Address, now)]
                           /\ pc' = [pc EXCEPT ![p] = "create"]
                           /\ UNCHANGED resp
    /\ UNCHANGED <<users, products, orders, orderItems, now, req>>

\* variant: the header insert takes the first item's quantity off the stock
handleCheckout_CreateOrderTakeStock(p) ==
    /\ pc[p] = "create"
    /\ \/ /\ StorageFails
          /\ calls' = [calls EXCEPT ![p] =
                         Append(@, Call("CreateOrder", FALSE, loc[p].order.UserID, 0, 0, 0, 0))]
          /\ Respond(p, HttpError("sql: error", 0, StatusInternalServerError))
          /\ UNCHANGED <<orders, loc, products>>
       \/ /\ Len(orders) < MaxOrders
          /\ UNCHANGED faults
          /\ orders' = CreateOrder(orders, loc[p].order, now)
          /\ products' = LET item == loc[p].cart.Items.elems[1]
                         IN  [products EXCEPT ![item.ProductID].Quantity = @ - item.Quantity]
          /\ calls' = [calls EXCEPT ![p] =
                         Append(@, Call("CreateOrder", TRUE, loc[p].order.UserID,
                                        LastInsertId(orders), 0, 0, 0))]
          /\ loc' = [loc EXCEPT ![p].order.ID = LastInsertId(orders), ![p].i = 1]
          /\ pc' = [pc EXCEPT ![p] = "items"]
          /\ UNCHANGED resp
    /\ UNCHANGED <<users, orderItems, now, req>>

\* lines 94-99: the header insert
handleCheckout_CreateOrder(p) ==
    /\ pc[p] = "create"
    /\ \/ /\ StorageFails
          /\ calls' = [calls EXCEPT ![p] =
                         Append(@, Call("CreateOrder", FALSE, loc[p].order.UserID, 0, 0, 0, 0))]
          /\ Respond(p, HttpError("sql: error", 0, StatusInternalServerError))
          /\ UNCHANGED <<orders, loc>>
       \/ /\ Len(orders) < MaxOrders
          /\ UNCHANGED faults
          /\ orders' = CreateOrder(orders, loc[p].order, now)
          /\ calls' = [calls EXCEPT ![p] =
                         Append(@, Call("CreateOrder", TRUE, loc[p].order.UserID,
                                        LastInsertId(orders), 0, 0, 0))]
          /\ loc' = [loc EXCEPT ![p].order.ID = LastInsertId(orders), ![p].i = 1]
          /\ pc' = [pc EXCEPT ![p] = "items"]
          /\ UNCHANGED resp
    /\ UNCHANGED <<users, products, orderItems, now, req>>

\* variant: a failed item insert is skipped and the loop goes on
handleCheckout_CreateOrderItemSkip(p) ==
    /\ pc[p] = "items"
    /\ LET items == loc[p].cart.Items.elems
           item == items[loc[p].i]
           orderItem == NewOrderItem(loc[p].order, item, loc[p].productMap[item.ProductID])
           call(ok) == Call("CreateOrderItem", ok, 0, orderItem.OrderID, orderItem.ProductID,
                            orderItem.Quantity, orderItem.Price)
       IN  /\ \/ /\ StorageFails
                 /\ calls' = [calls EXCEPT ![p] = Append(@, call(FALSE))]
                 /\ UNCHANGED orderItems
              \/ /\ UNCHANGED faults
                 /\ orderItems' = CreateOrderItem(orderItems, orderItem)
                 /\ calls' = [calls EXCEPT ![p] = Append(@, call(TRUE))]
           /\ IF loc[p].i < Len(items)
                THEN /\ loc' = [loc EXCEPT ![p].i = @ + 1]
                     /\ UNCHANGED <<pc, resp>>
                ELSE /\ Respond(p, WriteJSON(StatusCreated, "order created successfully",
                                             loc[p].order, <<>>))
                     /\ UNCHANGED loc
    /\ UNCHANGED <<users, products, orders, now, req>>

\* variant: an item insert takes the quantity off the product's stock
handleCheckout_CreateOrderItemReserve(p) ==
    /\ pc[p] = "items"
    /\ LET items == loc[p].cart.Items.elems
           item == items[loc[p].i]
           orderItem == NewOrderItem(loc[p].order, item, loc[p].productMap[item.ProductID])
           call(ok) == Call("CreateOrderItem", ok, 0, orderItem.OrderID, orderItem.ProductID,
                            orderItem.Quantity, orderItem.Price)
       IN  \/ /\ StorageFails
              /\ calls' = [calls EXCEPT ![p] = Append(@, call(FALSE))]
              /\ Respond(p, HttpError("sql: error", 0, StatusInternalServerError))
              /\ UNCHANGED <<orderItems, products, loc>>
           \/ /\ UNCHANGED faults
              /\ orderItems' = CreateOrderItem(orderItems, orderItem)
              /\ products' = [products EXCEPT ![item.ProductID].Quantity = @ - item.Quantity]
              /\ calls' = [calls EXCEPT ![p] = Append(@, call(TRUE))]
              /\ IF loc[p].i < Len(items)
                   THEN /\ loc' = [loc EXCEPT ![p].i = @ + 1]
                        /\ UNCHANGED <<pc, resp>>
                   ELSE /\ Respond(p, WriteJSON(StatusCreated, "order created successfully",
                                                loc[p].order, <<>>))
                        /\ UNCHANGED loc
    /\ UNCHANGED <<users, orders, now, req>>

\* lines 102-121: one pass of the item loop; after the last insert the
\* handler writes the 201 response
handleCheckout_CreateOrderItem(p) ==
    /\ pc[p] = "items"
    /\ LET items == loc[p].cart.Items.elems
           item == items[loc[p].i]
           orderItem == NewOrderItem(loc[p].order, item, loc[p].productMap[item.ProductID])
           call(ok) == Call("CreateOrderItem", ok, 0, orderItem.OrderID, orderItem.ProductID,
                            orderItem.Quantity, orderItem.Price)
       IN  \/ /\ StorageFails
              /\ calls' = [calls EXCEPT ![p] = Append(@, call(FALSE))]
              /\ Respond(p, HttpError("sql: error", 0, StatusInternalServerError))
              /\ UNCHANGED <<orderItems, loc>>
           \/ /\ UNCHANGED faults
              /\ orderItems' = CreateOrderItem(orderItems, orderItem)
              /\ calls' = [calls EXCEPT ![p] = Append(@, call(TRUE))]
              /\ IF loc[p].i < Len(items)
                   THEN /\ loc' = [loc EXCEPT ![p].i = @ + 1]
                        /\ UNCHANGED <<pc, resp>>
                   ELSE /\ Respond(p, WriteJSON(StatusCreated, "order created successfully",
                                                loc[p].order, <<>>))
                        /\ UNCHANGED loc
    /\ UNCHANGED <<users, products, orders, now, req>>

handleCheckout(p) ==
    \/ handleCheckout_Begin(p)
    \/ handleCheckout_GetProducts(p)
    \/ handleCheckout_CreateOrder(p)
    \/ handleCheckout_CreateOrderItem(p)

(***************************************************************************)
(* Store.GetOrders                                                         *)
(***************************************************************************)
\* ORDER BY o.createdAt DESC, o.id ASC
QueryBefore(a, b) ==
    \/ a.createdAt > b.createdAt
    \/ a.createdAt = b.createdAt /\ a.id < b.id

\* variant: the query has no WHERE clause
SelectOrdersAll(tbl, userID) ==
    LET S == Range(tbl)
    IN  CHOOSE s \in Perms(S) : \A i, j \in 1..Len(s) : i < j => QueryBefore(s[i], s[j])

\* the user's order rows in the order of the query
SelectOrders(tbl, userID) ==
    LET S == {o \in Range(tbl) : o.userId = userID}
    IN  CHOOSE s \in Perms(S) : \A i, j \in 1..Len(s) : i < j => QueryBefore(s[i], s[j])

ZeroItemRow == [id |-> 0, orderId |-> 0, productId |-> 0, quantity |-> 0, price |-> 0]
ZeroProduct == [ID |-> 0, Name |-> "", Price |-> 0, Quantity |-> 0]

\* variant: products are joined with an inner join
JoinedRowsInner(o, itemTbl, productTbl) ==
    LET I == {oi \in Range(itemTbl) : oi.orderId = o.id /\ oi.productId \in DOMAIN productTbl}
    IN  IF I = {}
          THEN {[o |-> o, itemNull |-> TRUE, oi |-> ZeroItemRow,
                 productNull |-> TRUE, p |-> ZeroProduct]}
          ELSE {[o |-> o, itemNull |-> FALSE, oi |-> oi,
                 productNull |-> FALSE, p |-> productTbl[oi.productId]] : oi \in I}

\* LEFT JOIN order_items, LEFT JOIN products: the joined rows of one order.
\* An order without items yields one row whose item and product columns
\* are NULL; an item whose product is gone has NULL product columns.
JoinedRows(o, itemTbl, productTbl) ==
    LET I == {oi \in Range(itemTbl) : oi.orderId = o.id}
    IN  IF I = {}
          THEN {[o |-> o, itemNull |-> TRUE, oi |-> ZeroItemRow,
                 productNull |-> TRUE, p |-> ZeroProduct]}
          ELSE {[o |-> o, itemNull |-> FALSE, oi |-> oi,
                 productNull |-> oi.productId \notin DOMAIN productTbl,
                 p |-> IF oi.productId \in DOMAIN productTbl
                         THEN productTbl[oi.productId] ELSE ZeroProduct] : oi \in I}

\* The possible row streams: orders in query order, the rows of one order
\* in any order (the query does not order them).
RECURSIVE RowStreams(_, _, _)
RowStreams(os, itemTbl, productTbl) ==
    IF os = <<>> THEN {<<>>}
    ELSE {h \o t : h \in Perms(JoinedRows(Head(os), itemTbl, productTbl)),
                   t \in RowStreams(Tail(os), itemTbl, productTbl)}

\* rows.Scan, lines 118-140: item_id and the product columns are scanned
\* into sql.Null* values, oi.orderId, oi.productId, oi.quantity and oi.price
\* into plain int and float64 fields, which cannot take NULL.
ScanFails(row) == row.itemNull

\* lines 143-164: the order struct and the item of one row
ScannedOrder(row) ==
    [ID |-> row.o.id, UserID |-> row.o.userId, Total |-> row.o.total,
     Status |-> row.o.status, Address |-> row.o.address,
     CreatedAt |-> row.o.createdAt, Items |-> <<>>]

\* variant: the item's price is read from the joined product row
ScannedItemCurrentPrice(row) ==
    [ID |-> row.oi.id, OrderID |-> row.oi.orderId, ProductID |-> row.oi.productId,
     Quantity |-> row.oi.quantity, Price |-> row.p.Price,
     hasProduct |-> ~row.productNull, Product |-> row.p]

ScannedItem(row) ==
    [ID |-> row.oi.id, OrderID |-> row.oi.orderId, ProductID |-> row.oi.productId,
     Quantity |-> row.oi.quantity, Price |-> row.oi.price,
     hasProduct |-> ~row.productNull, Product |-> row.p]

\* variant: a row's item replaces the items collected so far
RECURSIVE FoldRowsLastItem(_, _)
FoldRowsLastItem(rows, ordersMap) ==
    IF rows = <<>> THEN [err |-> "", ordersMap |-> ordersMap]
    ELSE LET row == Head(rows) IN
      IF ScanFails(row)
        THEN [err |-> "sql: Scan error: converting NULL to int is unsupported",
              ordersMap |-> ordersMap]
      ELSE LET id == row.o.id
               m1 == IF id \in DOMAIN ordersMap THEN ordersMap
                     ELSE ordersMap @@ (id :> ScannedOrder(row))
               m2 == IF row.itemNull THEN m1
                     ELSE [m1 EXCEPT ![id].Items = <<ScannedItem(row)>>]
           IN  FoldRowsLastItem(Tail(rows), m2)

\* lines 105-165: the fold of the row stream into ordersMap
RECURSIVE FoldRows(_, _)
FoldRows(rows, ordersMap) ==
    IF rows = <<>> THEN [err |-> "", ordersMap |-> ordersMap]
    ELSE LET row == Head(rows) IN
      IF ScanFails(row)
        THEN [err |-> "sql: Scan error: converting NULL to int is unsupported",
              ordersMap |-> ordersMap]
      ELSE LET id == row.o.id
               m1 == IF id \in DOMAIN ordersMap THEN ordersMap
                     ELSE ordersMap @@ (id :> ScannedOrder(row))
               m2 == IF row.itemNull THEN m1
                     ELSE [m1 EXCEPT ![id].Items = Append(@, ScannedItem(row))]
           IN  FoldRows(Tail(rows), m2)

\* lines 167-173: the map is copied to a slice by ranging over it; Go fixes
\* no iteration order for a map, so every order of the values is possible.
MapToSlice(ordersMap) == Perms({ordersMap[id] : id \in DOMAIN ordersMap})

\* The possible results of GetOrders(userID).
GetOrders(orderTbl, itemTbl, productTbl, userID) ==
    UNION {LET f == FoldRows(rows, <<>>) IN
             IF f.err # "" THEN {[err |-> f.err, orders |-> <<>>]}
             ELSE {[err |-> "", orders |-> s] : s \in MapToSlice(f.ordersMap)} :
           rows \in RowStreams(SelectOrders(orderTbl, userID), itemTbl, productTbl)}

(***************************************************************************)
(* Handler.handleGetOrders                                                 *)
(***************************************************************************)
\* lines 125-129
handleGetOrders_Begin(p) ==
    /\ pc[p] = "start"
    /\ req[p].kind = "orders"
    /\ LET a == AuthenticateRequest(req[p].header, now)
       IN  IF a.err # ""
             THEN Respond(p, HttpError(a.err, 0, StatusUnauthorized)) /\ UNCHANGED loc
             ELSE /\ loc' = [loc EXCEPT ![p] = [ZeroLocals EXCEPT !.userId = a.userId]]
                  /\ pc' = [pc EXCEPT ![p] = "query"]
                  /\ UNCHANGED resp
    /\ UNCHANGED <<users, products, orders, orderItems, now, req, calls, faults>>

\* lines 131-141
handleGetOrders_Query(p) ==
    /\ pc[p] = "query"
    /\ \/ /\ StorageFails
          /\ calls' = [calls EXCEPT ![p] =
                         Append(@, Call("GetOrders", FALSE, loc[p].userId, 0, 0, 0, 0))]
          /\ Respond(p, HttpError("sql: error", 0, StatusInternalServerError))
       \/ \E r \in GetOrders(orders, orderItems, products, loc[p].userId) :
          /\ UNCHANGED faults
          /\ calls' = [calls EXCEPT ![p] =
                         Append(@, Call("GetOrders", r.err = "", loc[p].userId, 0, 0, 0, 0))]
          /\ IF r.err # ""
               THEN Respond(p, HttpError(r.err, 0, StatusInternalServerError))
               ELSE Respond(p, WriteJSON(StatusOK, "orders fetched successfully",
                                         ZeroOrder, r.orders))
    /\ UNCHANGED <<users, products, orders, orderItems, now, req, loc>>

handleGetOrders(p) ==
    \/ handleGetOrders_Begin(p)
    \/ handleGetOrders_Query(p)

(***************************************************************************)
(* Specification of one request: the server, its tables holding a catalog  *)
(* and no order yet, is handed one arbitrary request at an arbitrary time. *)
(***************************************************************************)
Product(id, name, price, quantity) ==
    [ID |-> id, Name |-> name, Price |-> price, Quantity |-> quantity]

\* Catalogs: product 3 is never in the catalog.
CatalogA == (1 :> Product(1, "pen", 1000, 1)) @@ (2 :> Product(2, "ink", 250, 2))
CatalogB == (1 :> Product(1, "pen", 300, 2))
Catalogs == {CatalogA, CatalogB}

Idle == [p \in Procs |-> "idle"]

InitReq ==
    /\ products \in Catalogs
    /\ orders = <<>>
    /\ orderItems = <<>>
    /\ users = <<>>
    /\ now \in 1..MaxTime
    /\ \E r \in CheckoutRequests \cup OrdersRequests :
          req = [p \in Procs |-> IF p = 1 THEN r ELSE NoRequest]
    /\ pc = [Idle EXCEPT ![1] = "start"]
    /\ loc = [p \in Procs |-> ZeroLocals]
    /\ resp = [p \in Procs |-> NoResponse]
    /\ calls = [p \in Procs |-> <<>>]
    /\ faults = 0

NextReq ==
    \/ handleCheckout(1)
    \/ handleGetOrders(1)

SpecReq == InitReq /\ [][NextReq]_vars


(***************************************************************************)
(* Specification of the running server: requests of authenticated users    *)
(* arrive one after the other and overlap, the clock advances, and storage *)
(* calls may fail.                                                         *)
(***************************************************************************)
Item(id, q) == [ProductID |-> id, Quantity |-> q]

ServedCarts == {<<Item(1, 1)>>, <<Item(2, 1), Item(1, 1)>>}

ServedHeaders == {<<"Bearer", "tokU1">>, <<"Bearer", "tokU2">>}

ServedRequests ==
    {[kind |-> "checkout", header |-> h,
      body |-> [json |-> TRUE, hasItems |-> TRUE, items |-> c,
                address |-> "12 Main St", userID |-> 0]] :
        h \in ServedHeaders, c \in ServedCarts}
    \cup {[kind |-> "orders", header |-> h, body |-> NoBody] : h \in ServedHeaders}

\* checkouts that may still insert a header
PendingHeaders == {q \in Procs : pc[q] \in {"start", "products", "create"} /\ req[q].kind = "checkout"}

\* In this run goroutine 1 takes the POST /order requests and goroutine 2
\* the GET /orders requests, so a history read overlaps a checkout.
Serves(p) == IF p = 1 THEN "checkout" ELSE "orders"

\* the server accepts a request on a goroutine that is free
Arrive(p) ==
    /\ pc[p] \in {"idle", "done"}
    /\ \E r \in {x \in ServedRequests : x.kind = Serves(p)} :
          /\ r.kind = "checkout" => Len(orders) + Cardinality(PendingHeaders) < MaxOrders
          /\ req' = [req EXCEPT ![p] = r]
    /\ pc' = [pc EXCEPT ![p] = "start"]
    /\ loc' = [loc EXCEPT ![p] = ZeroLocals]
    /\ resp' = [resp EXCEPT ![p] = NoResponse]
    /\ calls' = [calls EXCEPT ![p] = <<>>]
    /\ UNCHANGED <<users, products, orders, orderItems, now, faults>>

Tick ==
    /\ now < MaxTime
    /\ now' = now + 1
    /\ UNCHANGED <<users, products, orders, orderItems, req, pc, loc, resp, calls, faults>>

Init ==
    /\ products = CatalogA
    /\ orders = <<>>
    /\ orderItems = <<>>
    /\ users = <<>>
    /\ now = 1
    /\ req = [p \in Procs |-> NoRequest]
    /\ pc = Idle
    /\ loc = [p \in Procs |-> ZeroLocals]
    /\ resp = [p \in Procs |-> NoResponse]
    /\ calls = [p \in Procs |-> <<>>]
    /\ faults = 0

Next ==
    \/ \E p \in Procs : Arrive(p)
    \/ \E p \in Procs : handleCheckout(p)
    \/ \E p \in Procs : handleGetOrders(p)
    \/ Tick

Spec == Init /\ [][Next]_vars


(***************************************************************************)
(* Handler.handleCreateProduct and Store.CreateProduct                     *)
(***************************************************************************)
MaxProducts == 3

\* utils.WriteError(w, status, err): the JSON object {"error": err.Error()}
WriteError(code, msg, arg) ==
    [NoResponse EXCEPT !.status = code, !.ctype = "application/json",
                       !.error = msg, !.arg = arg]

\* the body of POST /products decoded into types.Product
ProductPayload(name, description, image, price, quantity) ==
    [json |-> TRUE, Name |-> name, Description |-> description, Image |-> image,
     Price |-> price, Quantity |-> quantity]

\* variant: a price of zero passes
ValidateProductZeroPrice(product) ==
    IF product.Name = "" THEN "name is required"
    ELSE IF product.Description = "" THEN "description is required"
    ELSE IF product.Image = "" THEN "image is required"
    ELSE IF product.Price < 0 THEN "price must be greater than 0"
    ELSE IF product.Quantity < 0 THEN "quantity cannot be negative"
    ELSE ""

\* the field checks of handleCreateProduct, in the order of the code
ValidateProduct(product) ==
    IF product.Name = "" THEN "name is required"
    ELSE IF product.Description = "" THEN "description is required"
    ELSE IF product.Image = "" THEN "image is required"
    ELSE IF product.Price <= 0 THEN "price must be greater than 0"
    ELSE IF product.Quantity < 0 THEN "quantity cannot be negative"
    ELSE ""

\* the AUTO_INCREMENT id of the next product row; the row with the highest
\* id is never removed in the runs below, so this is the counter's value
AutoIncrement(tbl) ==
    IF DOMAIN tbl = {} THEN 1
    ELSE (CHOOSE m \in DOMAIN tbl : \A k \in DOMAIN tbl : k <= m) + 1

\* INSERT INTO products (...), product.ID = LastInsertId()
CreateProduct(tbl, product) ==
    LET id == AutoIncrement(tbl)
    IN  tbl @@ (id :> [ID |-> id, Name |-> product.Name, Price |-> product.Price,
                       Quantity |-> product.Quantity])

\* utils.WriteJSON(w, 201, {status, message, data: product})
WriteProductJSON(code, message, product) ==
    [status |-> code, ctype |-> "application/json", error |-> "", arg |-> 0,
     message |-> message, order |-> ZeroOrder, orders |-> <<>>, product |-> product]

\* decode, validate, insert, answer: one storage call
handleCreateProduct(p) ==
    /\ pc[p] = "start"
    /\ req[p].kind = "product"
    /\ LET product == req[p].body
           v == ValidateProduct(product)
       IN  IF ~product.json
             THEN /\ Respond(p, WriteError(StatusBadRequest, "invalid character", 0))
                  /\ UNCHANGED <<products, calls, faults>>
           ELSE IF v # ""
             THEN /\ Respond(p, WriteError(StatusBadRequest, v, 0))
                  /\ UNCHANGED <<products, calls, faults>>
           ELSE \/ /\ StorageFails
                   /\ calls' = [calls EXCEPT ![p] =
                                  Append(@, Call("CreateProduct", FALSE, 0, 0, 0, 0, 0))]
                   /\ Respond(p, WriteError(StatusInternalServerError, "sql: error", 0))
                   /\ UNCHANGED products
                \/ /\ AutoIncrement(products) <= MaxProducts
                   /\ UNCHANGED faults
                   /\ products' = CreateProduct(products, product)
                   /\ calls' = [calls EXCEPT ![p] =
                                  Append(@, Call("CreateProduct", TRUE, 0, 0, AutoIncrement(products),
                                                 product.Quantity, product.Price))]
                   /\ Respond(p, WriteProductJSON(StatusCreated, "product created successfully",
                                                  products'[AutoIncrement(products)]))
    /\ UNCHANGED <<users, orders, orderItems, now, req, loc>>

(***************************************************************************)
(* Specification of the shop whose catalog changes: one customer checks    *)
(* out and reads the history while products are created through the        *)
(* handler and the products table is edited from outside the server.       *)
(***************************************************************************)
CatalogRequests ==
    {r \in ServedRequests : r.header = <<"Bearer", "tokU1">>}
    \cup {[kind |-> "product", header |-> <<>>, body |-> b] :
            b \in {ProductPayload("cap", "a cap", "cap.png", 500, 3),
                   ProductPayload("cap", "a cap", "cap.png", 0, 3)}}

\* goroutine 1 takes the checkouts, goroutine 2 the other requests
ArriveCatalog(p) ==
    /\ pc[p] \in {"idle", "done"}
    /\ \E r \in {x \in CatalogRequests : (x.kind = "checkout") <=> (p = 1)} :
          /\ r.kind = "checkout" => Len(orders) + Cardinality(PendingHeaders) < MaxOrders
          /\ req' = [req EXCEPT ![p] = r]
    /\ pc' = [pc EXCEPT ![p] = "start"]
    /\ loc' = [loc EXCEPT ![p] = ZeroLocals]
    /\ resp' = [resp EXCEPT ![p] = NoResponse]
    /\ calls' = [calls EXCEPT ![p] = <<>>]
    /\ UNCHANGED <<users, products, orders, orderItems, now, faults>>

\* The products table is edited outside the handlers of this server: the
\* price of product 1 is raised once, or its row is removed.
RaisedPrice == 1200

ChangePrice ==
    /\ 1 \in DOMAIN products
    /\ products[1].Price # RaisedPrice
    /\ products' = [products EXCEPT ![1].Price = RaisedPrice]
    /\ UNCHANGED <<users, orders, orderItems, now, req, pc, loc, resp, calls, faults>>

RemoveProduct ==
    /\ 1 \in DOMAIN products
    /\ products' = [id \in DOMAIN products \ {1} |-> products[id]]
    /\ UNCHANGED <<users, orders, orderItems, now, req, pc, loc, resp, calls, faults>>

NextCatalog ==
    \/ \E p \in Procs : ArriveCatalog(p)
    \/ \E p \in Procs : handleCheckout(p)
    \/ \E p \in Procs : handleGetOrders(p)
    \/ \E p \in Procs : handleCreateProduct(p)
    \/ ChangePrice
    \/ RemoveProduct

SpecCatalog == Init /\ [][NextCatalog]_vars


(***************************************************************************)
(* Specification of overlapping checkouts: both goroutines take POST       *)
(* /order requests of the two customers.                                   *)
(***************************************************************************)
ArriveCheckout(p) ==
    /\ pc[p] \in {"idle", "done"}
    /\ \E r \in {x \in ServedRequests : x.kind = "checkout"} :
          /\ Len(orders) + Cardinality(PendingHeaders) < MaxOrders
          /\ req' = [req EXCEPT ![p] = r]
    /\ pc' = [pc EXCEPT ![p] = "start"]
    /\ loc' = [loc EXCEPT ![p] = ZeroLocals]
    /\ resp' = [resp EXCEPT ![p] = NoResponse]
    /\ calls' = [calls EXCEPT ![p] = <<>>]
    /\ UNCHANGED <<users, products, orders, orderItems, now, faults>>

NextRace ==
    \/ \E p \in Procs : ArriveCheckout(p)
    \/ \E p \in Procs : handleCheckout(p)

SpecRace == Init /\ [][NextRace]_vars


(***************************************************************************)
(* The user service: payload validation.  A string is the sequence of its  *)
(* characters.                                                             *)
(***************************************************************************)
MinPasswordLen == 8
MaxPasswordLen == 32
MinNameLen == 2
MaxNameLen == 50
MinTLDLen == 2

LetterChars == {"a", "b", "n", "J"}
DigitChars == {"1", "2"}

\* [a-zA-Z0-9._%+-], [a-zA-Z0-9.-], [a-zA-Z], [a-zA-Z\s-']
EmailLocalChar(c) == c \in LetterChars \cup DigitChars \cup {".", "_", "%", "+", "-"}
EmailDomainChar(c) == c \in LetterChars \cup DigitChars \cup {".", "-"}
LetterChar(c) == c \in LetterChars
NameChar(c) == c \in LetterChars \cup {" ", "-", "'"}

\* ^[a-zA-Z0-9._%+-]+@[a-zA-Z0-9.-]+\.[a-zA-Z]{2,}$
MatchEmail(s) ==
    \E i, j \in 1..Len(s) :
        /\ i >= 2 /\ s[i] = "@"
        /\ j >= i + 2 /\ s[j] = "."
        /\ Len(s) - j >= MinTLDLen
        /\ \A k \in 1..(i - 1) : EmailLocalChar(s[k])
        /\ \A k \in (i + 1)..(j - 1) : EmailDomainChar(s[k])
        /\ \A k \in (j + 1)..Len(s) : LetterChar(s[k])

\* ^[a-zA-Z\s-']+$
MatchName(s) == Len(s) >= 1 /\ \A k \in 1..Len(s) : NameChar(s[k])

\* [0-9] and [a-zA-Z] match somewhere in the string
HasNumber(s) == \E k \in 1..Len(s) : s[k] \in DigitChars
HasLetter(s) == \E k \in 1..Len(s) : s[k] \in LetterChars

\* variant: the email is only required to be non-empty
ValidateEmailRequiredOnly(email) ==
    IF email = <<>> THEN "email is required" ELSE ""

ValidateEmail(email) ==
    IF email = <<>> THEN "email is required"
    ELSE IF ~MatchEmail(email) THEN "invalid email format"
    ELSE ""

ValidateName(name, field) ==
    IF name = <<>> THEN field \o " is required"
    ELSE IF Len(name) < MinNameLen THEN field \o " must be at least 2 characters long"
    ELSE IF Len(name) > MaxNameLen THEN field \o " must not exceed 50 characters"
    ELSE IF ~MatchName(name) THEN field \o " contains invalid characters"
    ELSE ""

validateLoginPayload(payload) ==
    IF ValidateEmail(payload.Email) # "" THEN ValidateEmail(payload.Email)
    ELSE IF payload.Password = <<>> THEN "password is required"
    ELSE IF Len(payload.Password) < MinPasswordLen
      THEN "password must be at least 8 characters long"
    ELSE ""

validateRegisterPayload(payload) ==
    IF ValidateEmail(payload.Email) # "" THEN ValidateEmail(payload.Email)
    ELSE IF payload.Password = <<>> THEN "password is required"
    ELSE IF Len(payload.Password) < MinPasswordLen
      THEN "password must be at least 8 characters long"
    ELSE IF Len(payload.Password) > MaxPasswordLen
      THEN "password must not exceed 32 characters"
    ELSE IF ~HasNumber(payload.Password) \/ ~HasLetter(payload.Password)
      THEN "password must contain at least one number and one letter"
    ELSE IF ValidateName(payload.FirstName, "first name") # ""
      THEN ValidateName(payload.FirstName, "first name")
    ELSE ValidateName(payload.LastName, "last name")


(***************************************************************************)
(* The user service: services/user Store, auth.HashPassword and            *)
(* auth.ComparePasswords                                                   *)
(***************************************************************************)
NoUser == [id |-> 0, firstName |-> <<>>, lastName |-> <<>>, email |-> <<>>,
           password |-> <<>>, createdAt |-> 0]

\* variant: the query finds no row
GetUserByEmailNoRows(tbl, email) ==
    [err |-> "sql: no rows in result set", found |-> FALSE, user |-> NoUser]

\* SELECT ... FROM users WHERE email = ?: the row, or sql.ErrNoRows
GetUserByEmail(tbl, email) ==
    IF \E i \in 1..Len(tbl) : tbl[i].email = email
      THEN [err |-> "", found |-> TRUE,
            user |-> tbl[CHOOSE i \in 1..Len(tbl) : tbl[i].email = email]]
      ELSE [err |-> "sql: no rows in result set", found |-> FALSE, user |-> NoUser]

\* variant: the table has no unique key on the email
CreateUserNoUnique(tbl, user) ==
    [err |-> "", tbl |-> Append(tbl, [user EXCEPT !.id = Len(tbl) + 1])]

\* INSERT INTO users (firstName, lastName, email, password, createdAt); the
\* table's UNIQUE KEY (email) refuses a second row of the same email
CreateUser(tbl, user) ==
    IF \E i \in 1..Len(tbl) : tbl[i].email = user.email
      THEN [err |-> "Error 1062: Duplicate entry", tbl |-> tbl]
      ELSE [err |-> "", tbl |-> Append(tbl, [user EXCEPT !.id = Len(tbl) + 1])]

\* bcrypt: the hash string is the version and cost prefix, the salt, and the
\* digest of the salted password (written here as the password it verifies)
BcryptPrefix == <<"$", "2", "a", "$">>
Salts == {"x", "y"}

\* variant: the password is stored as it came
HashPasswordPlain(password, salt) == password

HashPassword(password, salt) == BcryptPrefix \o <<salt>> \o password

\* variant: any password is accepted for a stored hash
ComparePasswordsAny(hashedPassword, plainPassword) ==
    Len(hashedPassword) > Len(BcryptPrefix)

ComparePasswords(hashedPassword, plainPassword) ==
    /\ Len(hashedPassword) > Len(BcryptPrefix)
    /\ SubSeq(hashedPassword, 1, Len(BcryptPrefix)) = BcryptPrefix
    /\ SubSeq(hashedPassword, Len(BcryptPrefix) + 2, Len(hashedPassword)) = plainPassword

(***************************************************************************)
(* Handler.handleRegister, Handler.handleLogin                             *)
(***************************************************************************)
RegisterUserPayload(firstName, lastName, email, password) ==
    [json |-> TRUE, FirstName |-> firstName, LastName |-> lastName,
     Email |-> email, Password |-> password]

LoginUserPayload(email, password) ==
    [json |-> TRUE, Email |-> email, Password |-> password]

UserLocals(payload, user) == [payload |-> payload, user |-> user]

UserCall(op, ok, email, user) == [op |-> op, ok |-> ok, email |-> email, user |-> user]

\* variant: the whole user row goes into the response
PublicUserWholeRow(user) == user

\* the user object of the responses: the password is left out
PublicUser(user) ==
    [id |-> user.id, firstName |-> user.firstName, lastName |-> user.lastName,
     email |-> user.email]

NoUserResponse ==
    [status |-> 0, ctype |-> "", error |-> "", arg |-> <<>>, message |-> "",
     token |-> <<>>, user |-> PublicUser(NoUser)]

\* utils.WriteError for the user handlers; arg is the %s of the message
WriteUserError(code, msg, arg) ==
    [NoUserResponse EXCEPT !.status = code, !.ctype = "application/json",
                           !.error = msg, !.arg = arg]

\* utils.WriteJSON(w, code, {status, message, data: {token, user}})
WriteUserJSON(code, message, token, user) ==
    [NoUserResponse EXCEPT !.status = code, !.ctype = "application/json",
                           !.message = message, !.token = <<token>>,
                           !.user = PublicUser(user)]

\* decode and validate
handleRegister_Begin(p) ==
    /\ pc[p] = "start"
    /\ req[p].kind = "register"
    /\ LET payload == req[p].body
           v == validateRegisterPayload(payload)
       IN  IF ~payload.json
             THEN Respond(p, WriteUserError(StatusBadRequest, "invalid character", <<>>))
                  /\ UNCHANGED loc
           ELSE IF v # ""
             THEN Respond(p, WriteUserError(StatusBadRequest, v, <<>>)) /\ UNCHANGED loc
           ELSE /\ loc' = [loc EXCEPT ![p] = UserLocals(payload, NoUser)]
                /\ pc' = [pc EXCEPT ![p] = "lookup"]
                /\ UNCHANGED resp
    /\ UNCHANGED <<users, products, orders, orderItems, now, req, calls, faults>>

\* the existence check, then the hash and the user struct
handleRegister_GetUser(p) ==
    /\ pc[p] = "lookup"
    /\ req[p].kind = "register"
    /\ LET payload == loc[p].payload
           r == GetUserByEmail(users, payload.Email)
       IN  \/ /\ StorageFails
              /\ calls' = [calls EXCEPT ![p] =
                             Append(@, UserCall("GetUserByEmail", FALSE, payload.Email, NoUser))]
              /\ Respond(p, WriteUserError(StatusInternalServerError,
                                           "error checking user existence: %w", <<>>))
              /\ UNCHANGED loc
           \/ /\ UNCHANGED faults
              /\ calls' = [calls EXCEPT ![p] =
                             Append(@, UserCall("GetUserByEmail", TRUE, payload.Email, NoUser))]
              /\ IF r.found
                   THEN Respond(p, WriteUserError(StatusBadRequest,
                                                  "user with email %s already exists",
                                                  payload.Email))
                        /\ UNCHANGED loc
                   ELSE \E salt \in Salts :
                          /\ loc' = [loc EXCEPT ![p].user =
                                       [id |-> 0, firstName |-> payload.FirstName,
                                        lastName |-> payload.LastName, email |-> payload.Email,
                                        password |-> HashPassword(payload.Password, salt),
                                        createdAt |-> now]]
                          /\ pc' = [pc EXCEPT ![p] = "insert"]
                          /\ UNCHANGED resp
    /\ UNCHANGED <<users, products, orders, orderItems, now, req>>

\* the insert and the 201 response
handleRegister_CreateUser(p) ==
    /\ pc[p] = "insert"
    /\ req[p].kind = "register"
    /\ LET user == loc[p].user
           r == CreateUser(users, user)
       IN  \/ /\ StorageFails
              /\ calls' = [calls EXCEPT ![p] =
                             Append(@, UserCall("CreateUser", FALSE, user.email, user))]
              /\ Respond(p, WriteUserError(StatusInternalServerError,
                                           "error creating user: %w", <<>>))
              /\ UNCHANGED users
           \/ /\ UNCHANGED faults
              /\ calls' = [calls EXCEPT ![p] =
                             Append(@, UserCall("CreateUser", r.err = "", user.email, user))]
              /\ users' = r.tbl
              /\ IF r.err # ""
                   THEN Respond(p, WriteUserError(StatusInternalServerError,
                                                  "error creating user: %w", <<>>))
                   ELSE Respond(p, WriteUserJSON(StatusCreated, "user created successfully",
                                                 "token", user))
    /\ UNCHANGED <<products, orders, orderItems, now, req, loc>>

handleRegister(p) ==
    \/ handleRegister_Begin(p)
    \/ handleRegister_GetUser(p)
    \/ handleRegister_CreateUser(p)

handleLogin_Begin(p) ==
    /\ pc[p] = "start"
    /\ req[p].kind = "login"
    /\ LET payload == req[p].body
           v == validateLoginPayload(payload)
       IN  IF ~payload.json
             THEN Respond(p, WriteUserError(StatusBadRequest, "invalid character", <<>>))
                  /\ UNCHANGED loc
           ELSE IF v # ""
             THEN Respond(p, WriteUserError(StatusBadRequest, v, <<>>)) /\ UNCHANGED loc
           ELSE /\ loc' = [loc EXCEPT ![p] = UserLocals(payload, NoUser)]
                /\ pc' = [pc EXCEPT ![p] = "lookup"]
                /\ UNCHANGED resp
    /\ UNCHANGED <<users, products, orders, orderItems, now, req, calls, faults>>

\* the lookup, the password comparison, the token and the response
handleLogin_GetUser(p) ==
    /\ pc[p] = "lookup"
    /\ req[p].kind = "login"
    /\ LET payload == loc[p].payload
           r == GetUserByEmail(users, payload.Email)
       IN  \/ /\ StorageFails
              /\ calls' = [calls EXCEPT ![p] =
                             Append(@, UserCall("GetUserByEmail", FALSE, payload.Email, NoUser))]
              /\ Respond(p, WriteUserError(StatusInternalServerError,
                                           "error checking user: %w", <<>>))
           \/ /\ UNCHANGED faults
              /\ calls' = [calls EXCEPT ![p] =
                             Append(@, UserCall("GetUserByEmail", TRUE, payload.Email, NoUser))]
              /\ IF ~r.found
                   THEN Respond(p, WriteUserError(StatusUnauthorized,
                                                  "invalid email or password", <<>>))
                 ELSE IF ~ComparePasswords(r.user.password, payload.Password)
                   THEN Respond(p, WriteUserError(StatusUnauthorized,
                                                  "invalid email or password", <<>>))
                 ELSE Respond(p, WriteUserJSON(StatusOK, "login successful",
                                               CreateJWT(JWTSecret, r.user.id, now), r.user))
    /\ UNCHANGED <<users, products, orders, orderItems, now, req, loc>>

handleLogin(p) ==
    \/ handleLogin_Begin(p)
    \/ handleLogin_GetUser(p)


(***************************************************************************)
(* Specification of one request to the user service: the server, its users *)
(* table empty or holding one user, is handed one register or login        *)
(* request.                                                                *)
(***************************************************************************)
Rep(c, n) == [i \in 1..n |-> c]

GoodEmail == <<"a", "@", "b", ".", "a", "n">>
GoodPassword == <<"a", "b", "a", "b", "a", "b", "a", "1">>

\* empty, no @, nothing after the @, a one-letter top-level domain, an
\* empty domain label, and well-formed addresses
Emails ==
    {<<>>, <<"a", "b", ".", "a", "n">>, <<"a", "@">>, <<"a", "@", "b", ".", "a">>,
     <<"a", "@", ".", "a", "n">>, GoodEmail, <<"b", "@", "b", ".", "a", "n">>,
     <<"J", ".", "1", "@", "a", "-", "b", ".", "b", ".", "a", "n">>}

\* empty, short, letters only, digits only, 8 and 32 characters with both,
\* 33 characters, a character that is neither
Passwords ==
    {<<>>, <<"a", "b", "n", "1">>, Rep("a", MinPasswordLen), Rep("1", MinPasswordLen),
     GoodPassword, <<"b", "a", "b", "a", "b", "a", "b", "2">>,
     Rep("a", MaxPasswordLen - 1) \o <<"1">>, Rep("a", MaxPasswordLen) \o <<"1">>,
     Rep("a", MinPasswordLen - 2) \o <<"1">>, Rep("!", MinPasswordLen)}

\* empty, one letter, two letters, 50 and 51 letters, a digit, and the
\* other characters the pattern allows
Names ==
    {<<>>, <<"J">>, <<"J", "n">>, Rep("a", MaxNameLen), Rep("a", MaxNameLen + 1),
     <<"J", "n", "1">>, <<"J", " ", "n", "-", "a", "'">>}

MalformedBody == [json |-> FALSE, FirstName |-> <<>>, LastName |-> <<>>,
                  Email |-> <<>>, Password |-> <<>>]

UserRequests ==
    {[kind |-> "register", header |-> <<>>, body |-> b] :
        b \in {RegisterUserPayload(f, l, e, pw) :
                 f \in Names, l \in Names, e \in Emails, pw \in Passwords}
              \cup {MalformedBody}}
    \cup {[kind |-> "login", header |-> <<>>, body |-> b] :
            b \in {LoginUserPayload(e, pw) : e \in Emails, pw \in Passwords}
                  \cup {MalformedBody}}

\* the user registered before the run
StoredUser ==
    [id |-> 1, firstName |-> <<"J", "n">>, lastName |-> <<"a", "b">>,
     email |-> GoodEmail, password |-> HashPassword(GoodPassword, "x"), createdAt |-> 0]

InitUser ==
    /\ products = CatalogA
    /\ orders = <<>>
    /\ orderItems = <<>>
    /\ users \in {<<>>, <<StoredUser>>}
    /\ now = 1
    /\ \E r \in UserRequests :
          req = [p \in Procs |-> IF p = 1 THEN r ELSE NoRequest]
    /\ pc = [Idle EXCEPT ![1] = "start"]
    /\ loc = [p \in Procs |-> ZeroLocals]
    /\ resp = [p \in Procs |-> NoResponse]
    /\ calls = [p \in Procs |-> <<>>]
    /\ faults = 0

NextUser ==
    \/ handleRegister(1)
    \/ handleLogin(1)

SpecUser == InitUser /\ [][NextUser]_vars


(***************************************************************************)
(* Specification of one create-product request: the server, its products   *)
(* table holding a catalog, is handed one POST /products/create request,   *)
(* with or without an Authorization header.                                *)
(***************************************************************************)
ProductPrices == {-1, 0, 500}
ProductQuantities == {-1, 0, 3}

ProductPayloads ==
    {ProductPayload(n, d, i, pr, q) :
        n \in {"", "cap"}, d \in {"", "a cap"}, i \in {"", "cap.png"},
        pr \in ProductPrices, q \in ProductQuantities}

MalformedProduct == [ProductPayload("", "", "", 0, 0) EXCEPT !.json = FALSE]

ProductRequests ==
    {[kind |-> "product", header |-> h, body |-> b] :
        h \in {<<>>, <<"Bearer", "tokU1">>},
        b \in ProductPayloads \cup {MalformedProduct}}

InitProduct ==
    /\ products \in Catalogs
    /\ orders = <<>>
    /\ orderItems = <<>>
    /\ users = <<>>
    /\ now = 1
    /\ \E r \in ProductRequests :
          req = [p \in Procs |-> IF p = 1 THEN r ELSE NoRequest]
    /\ pc = [Idle EXCEPT ![1] = "start"]
    /\ loc = [p \in Procs |-> ZeroLocals]
    /\ resp = [p \in Procs |-> NoResponse]
    /\ calls = [p \in Procs |-> <<>>]
    /\ faults = 0

NextProduct == handleCreateProduct(1)

SpecProduct == InitProduct /\ [][NextProduct]_vars


(***************************************************************************)
(* Specification of the life of one token: a signer holding some secret    *)
(* issues a token for a user id, time passes, and the server verifies the  *)
(* token with its own secret.  The signer is CreateJWT, or a party that    *)
(* signs the same claims with another method.                              *)
(***************************************************************************)
SigningMethods == {"HS256", "HS512", "RS256", "none"}
Secrets == {JWTSecret, "other"}
TokenUserIds == {0, 1, 2}

\* the instants the clock shows: the first seconds, and the seconds around
\* the expiry of a token issued in the first seconds
Instants == (1..MaxTime) \cup {JWTExpiration + k : k \in 0..(MaxTime + 1)}

TokenLocals(token, issuedAt, verifiedAt) ==
    [token |-> token, issuedAt |-> issuedAt, verifiedAt |-> verifiedAt]

InitJWT ==
    /\ products = CatalogA
    /\ orders = <<>>
    /\ orderItems = <<>>
    /\ users = <<>>
    /\ now \in 1..MaxTime
    /\ \E s \in Secrets, v \in Secrets, u \in TokenUserIds, a \in SigningMethods :
          req = [p \in Procs |->
                   IF p = 1 THEN [kind |-> "token", header |-> <<>>,
                                  body |-> [secret |-> s, verifySecret |-> v,
                                            userId |-> u, alg |-> a]]
                   ELSE NoRequest]
    /\ pc = [Idle EXCEPT ![1] = "start"]
    /\ loc = [p \in Procs |-> ZeroLocals]
    /\ resp = [p \in Procs |-> NoResponse]
    /\ calls = [p \in Procs |-> <<>>]
    /\ faults = 0

\* the token is signed now
IssueToken(p) ==
    /\ pc[p] = "start"
    /\ req[p].kind = "token"
    /\ LET b == req[p].body
           token == [CreateJWT(b.secret, b.userId, now) EXCEPT !.alg = b.alg]
       IN  loc' = [loc EXCEPT ![p] = TokenLocals(token, now, 0)]
    /\ pc' = [pc EXCEPT ![p] = "issued"]
    /\ UNCHANGED <<users, products, orders, orderItems, now, req, resp, calls, faults>>

Elapse ==
    /\ \E t \in Instants : t > now /\ now' = t
    /\ UNCHANGED <<users, products, orders, orderItems, req, pc, loc, resp, calls, faults>>

\* the server verifies the token now; resp holds what VerifyJWT returned
VerifyToken(p) ==
    /\ pc[p] = "issued"
    /\ req[p].kind = "token"
    /\ resp' = [resp EXCEPT ![p] = VerifyParsed(loc[p].token, req[p].body.verifySecret, now)]
    /\ loc' = [loc EXCEPT ![p].verifiedAt = now]
    /\ pc' = [pc EXCEPT ![p] = "done"]
    /\ UNCHANGED <<users, products, orders, orderItems, now, req, calls, faults>>

NextJWT ==
    \/ IssueToken(1)
    \/ Elapse
    \/ VerifyToken(1)

SpecJWT == InitJWT /\ [][NextJWT]_vars


(***************************************************************************)
(* Specification of overlapping registrations: the two goroutines each     *)
(* take a well-formed POST /register; the requests may name the same email *)
(* and differ in the password.                                             *)
(***************************************************************************)
RegisterRaceRequests ==
    {r \in UserRequests :
        /\ r.kind = "register" /\ r.body.json
        /\ validateRegisterPayload(r.body) = ""
        /\ r.body.FirstName = <<"J", "n">> /\ r.body.LastName = <<"J", "n">>}

InitRegisterRace ==
    /\ products = CatalogA
    /\ orders = <<>>
    /\ orderItems = <<>>
    /\ users = <<>>
    /\ now = 1
    /\ req \in [Procs -> RegisterRaceRequests]
    /\ pc = [p \in Procs |-> "start"]
    /\ loc = [p \in Procs |-> ZeroLocals]
    /\ resp = [p \in Procs |-> NoResponse]
    /\ calls = [p \in Procs |-> <<>>]
    /\ faults = 0

NextRegisterRace == \E p \in Procs : handleRegister(p)

SpecRegisterRace == InitRegisterRace /\ [][NextRegisterRace]_vars

(***************************************************************************)
(* Properties                                                              *)
(***************************************************************************)
Checkout(p) == req[p].kind = "checkout"
History(p) == req[p].kind = "orders"
Answered(p, code) == pc[p] = "done" /\ resp[p].status = code

\* the cart as the client sent it
CartOf(p) == req[p].body.items

IsWriteCall(c) == c.op \in {"CreateOrder", "CreateOrderItem"}
IsWrite(c) == IsWriteCall(c) /\ c.ok
WriteCalls(p) == SelectSeq(calls[p], IsWriteCall)
Writes(p) == SelectSeq(calls[p], IsWrite)

\* the request passed authentication and validation and its catalog read
\* returned rows
CatalogWasRead(p) ==
    /\ Len(calls[p]) >= 1
    /\ calls[p][1].op = "GetProductsByIDs"
    /\ calls[p][1].ok

HeaderInserted(p) == \E i \in 1..Len(calls[p]) : calls[p][i].op = "CreateOrder" /\ calls[p][i].ok

\* sum over the cart of quantity x price of the product as the request read it
LineSum(p) ==
    SumSeq([i \in 1..Len(CartOf(p)) |->
              CartOf(p)[i].Quantity * loc[p].productMap[CartOf(p)[i].ProductID].Price])

\* C1: the total written in the order header, and returned with 201, is the
\* sum over the cart items of quantity x price of the product read by the
\* request; it is fixed before the header insert and is still that sum while
\* and after the items are written.
C1_TotalIsLineSum ==
    \A p \in Procs :
        Checkout(p) /\ HeaderInserted(p) =>
            /\ loc[p].order.ID \in 1..Len(orders)
            /\ orders[loc[p].order.ID].total = LineSum(p)
            /\ loc[p].order.Total = LineSum(p)
            /\ Answered(p, StatusCreated) => resp[p].order.Total = LineSum(p)

\* a 201 for a two-line cart with a quantity of 2 in it
C1_Witness ==
    \E p \in Procs :
        /\ Checkout(p) /\ Answered(p, StatusCreated)
        /\ CartOf(p) = <<Item(1, 1), Item(2, 2)>>
        /\ resp[p].order.Total = 1500

SomeProductMissing(p) == \E i \in 1..Len(CartOf(p)) : CartOf(p)[i].ProductID \notin DOMAIN products

\* C2: a checkout whose cart references a product that is not in the catalog
\* issues no write at all, is never answered 201, and once its catalog read
\* has returned it is answered 400 "one or more products not found".
C2_MissingProductNoWrite ==
    \A p \in Procs :
        Checkout(p) /\ req[p].body.hasItems /\ SomeProductMissing(p) =>
            /\ WriteCalls(p) = <<>>
            /\ ~Answered(p, StatusCreated)
            /\ pc[p] \notin {"create", "items"}
            /\ pc[p] = "done" /\ CatalogWasRead(p) =>
                   resp[p] = HttpError("one or more products not found", 0, StatusBadRequest)

\* a cart with an existing product first and a missing one second
C2_Witness ==
    \E p \in Procs :
        /\ Checkout(p) /\ pc[p] = "done" /\ CatalogWasRead(p)
        /\ CartOf(p) = <<Item(1, 1), Item(3, 1)>>
        /\ resp[p].error = "one or more products not found"
        /\ orders = <<>> /\ orderItems = <<>>


AllProductsExist(p) == \A i \in 1..Len(CartOf(p)) : CartOf(p)[i].ProductID \in DOMAIN products

Exceeds(p, i) == CartOf(p)[i].Quantity > products[CartOf(p)[i].ProductID].Quantity

\* the first cart item, in input order, that asks for more than is available
FirstExceeding(p) ==
    CHOOSE i \in 1..Len(CartOf(p)) : Exceeds(p, i) /\ \A j \in 1..(i - 1) : ~Exceeds(p, j)

\* C3: when every referenced product exists and some cart item asks for more
\* than its product's quantity, the checkout is answered 400 "insufficient
\* quantity for product <id>", <id> being the product of the first such item,
\* and issues no write.
C3_InsufficientQuantityRejected ==
    \A p \in Procs :
        /\ Checkout(p) /\ pc[p] = "done" /\ CatalogWasRead(p)
        /\ AllProductsExist(p)
        /\ \E i \in 1..Len(CartOf(p)) : Exceeds(p, i)
        => /\ resp[p] = HttpError("insufficient quantity for product %d",
                                  CartOf(p)[FirstExceeding(p)].ProductID, StatusBadRequest)
           /\ WriteCalls(p) = <<>>

\* what a verifier of the token would accept at this instant, read off the
\* token's own header and claims
PresentsValidToken(p) ==
    /\ Len(req[p].header) = 2
    /\ req[p].header[1] = "Bearer"
    /\ req[p].header[2] \in DOMAIN JWTs
    /\ LET tok == JWTs[req[p].header[2]]
       IN  /\ tok.alg = "HS256"
           /\ tok.key = JWTSecret
           /\ tok.expiredAt >= now
           /\ tok.userId \in {"1", "2"}

TokenUser(p) == IF JWTs[req[p].header[2]].userId = "1" THEN 1 ELSE 2

ValidationMessages ==
    {"Items:required;", "Items:min;", "Address:required;",
     "Items:required;Address:required;", "Items:min;Address:required;"}

\* C4: an authenticated checkout whose body has no items list, an empty items
\* list or an empty address is answered 400 with a validation error, whatever
\* the other field holds, before any storage call and with nothing written.
C4_EmptyCartOrAddressRejected ==
    \A p \in Procs :
        /\ Checkout(p) /\ pc[p] # "start"
        /\ PresentsValidToken(p) /\ req[p].body.json
        /\ \/ ~req[p].body.hasItems
           \/ CartOf(p) = <<>>
           \/ req[p].body.address = ""
        => /\ pc[p] = "done"
           /\ resp[p].status = StatusBadRequest
           /\ resp[p].error \in ValidationMessages
           /\ calls[p] = <<>>
           /\ orders = <<>> /\ orderItems = <<>>

\* an empty items list sent with an address
C4_Witness ==
    \E p \in Procs :
        /\ Checkout(p) /\ Answered(p, StatusBadRequest)
        /\ PresentsValidToken(p)
        /\ req[p].body.hasItems /\ CartOf(p) = <<>> /\ req[p].body.address = "12 Main St"
        /\ resp[p].error = "Items:min;"
        /\ calls[p] = <<>>

\* C5: POST /order and GET /orders answer 401 and issue no storage call when
\* the request carries no acceptable bearer token; when it does, the owner of
\* the inserted header and the user of the history query are the token's user.
C5_AuthGuardsStorage ==
    \A p \in Procs :
        (Checkout(p) \/ History(p)) /\ pc[p] # "start" =>
            IF ~PresentsValidToken(p)
              THEN /\ pc[p] = "done"
                   /\ resp[p].status = StatusUnauthorized
                   /\ calls[p] = <<>>
                   /\ orders = <<>> /\ orderItems = <<>>
              ELSE /\ resp[p].status # StatusUnauthorized
                   /\ \A i \in 1..Len(calls[p]) :
                          calls[p][i].op \in {"CreateOrder", "GetOrders"} =>
                              calls[p][i].userId = TokenUser(p)
                   /\ \A i \in 1..Len(orders) : orders[i].userId = TokenUser(p)
                   /\ Answered(p, StatusCreated) => resp[p].order.UserID = TokenUser(p)

\* a checkout that would otherwise succeed, sent with an expired token
C5_Witness ==
    \E p \in Procs :
        /\ Checkout(p) /\ Answered(p, StatusUnauthorized)
        /\ req[p].header = <<"Bearer", "tokShort">> /\ now > 1
        /\ CartOf(p) = <<Item(1, 1)>> /\ req[p].body.address = "12 Main St"
        /\ calls[p] = <<>>


\* C6: the orders of a 200 answer of GET /orders are sorted by creation time
\* descending, ties broken by ascending order id.
C6_HistorySorted ==
    \A p \in Procs :
        History(p) /\ Answered(p, StatusOK) =>
            \A i, j \in 1..Len(resp[p].orders) :
                i < j =>
                    \/ resp[p].orders[i].CreatedAt > resp[p].orders[j].CreatedAt
                    \/ /\ resp[p].orders[i].CreatedAt = resp[p].orders[j].CreatedAt
                       /\ resp[p].orders[i].ID < resp[p].orders[j].ID

\* C7: the order returned with 201 holds, in cart order, one item per cart
\* item with the new order id, the cart item's product and quantity and the
\* price read for the product.
C7_ReturnedOrderHasItems ==
    \A p \in Procs :
        Checkout(p) /\ Answered(p, StatusCreated) =>
            /\ Len(resp[p].order.Items) = Len(CartOf(p))
            /\ \A i \in 1..Len(CartOf(p)) :
                  /\ resp[p].order.Items[i].OrderID = resp[p].order.ID
                  /\ resp[p].order.Items[i].ProductID = CartOf(p)[i].ProductID
                  /\ resp[p].order.Items[i].Quantity = CartOf(p)[i].Quantity
                  /\ resp[p].order.Items[i].Price = products[CartOf(p)[i].ProductID].Price

ItemInserts(p) == SelectSeq(calls[p], LAMBDA c : c.op = "CreateOrderItem" /\ c.ok)

\* C8: a checkout whose cart references only existing products, each item
\* within the available quantity, is not answered "one or more products not
\* found", the same product occurring in several items or not; with no
\* storage failure it is answered 201 after one item insert per cart entry.
C8_DuplicateProductAccepted ==
    \A p \in Procs :
        /\ Checkout(p) /\ pc[p] = "done" /\ CatalogWasRead(p)
        /\ AllProductsExist(p)
        /\ \A i \in 1..Len(CartOf(p)) : ~Exceeds(p, i)
        => /\ resp[p].error # "one or more products not found"
           /\ faults = 0 =>
                 /\ resp[p].status = StatusCreated
                 /\ Len(ItemInserts(p)) = Len(CartOf(p))

\* C9: when no checkout is in flight, every order header in storage has at
\* least one order item referencing it.
C9_OrderHasItem ==
    (\A p \in Procs : pc[p] \in {"idle", "done"}) =>
        \A i \in 1..Len(orders) :
            \E k \in 1..Len(orderItems) : orderItems[k].orderId = orders[i].id

\* C10: a checkout answered 201 for a cart of N items has issued, after its
\* catalog read, exactly one header insert and then exactly N item inserts, all
\* successful, in cart order, each item with the id the header insert returned
\* and the cart item's product and quantity; the tables hold these rows and
\* no other.
C10_WritesOfCreated ==
    \A p \in Procs :
        Checkout(p) /\ Answered(p, StatusCreated) =>
            LET cart == CartOf(p)
                N == Len(cart)
                w == WriteCalls(p)
                id == resp[p].order.ID
            IN  /\ Len(calls[p]) = N + 2
                /\ Len(w) = N + 1
                /\ w[1].op = "CreateOrder" /\ w[1].ok /\ w[1].orderId = id
                /\ \A i \in 1..N :
                      /\ w[i + 1].op = "CreateOrderItem" /\ w[i + 1].ok
                      /\ w[i + 1].orderId = id
                      /\ w[i + 1].productId = cart[i].ProductID
                      /\ w[i + 1].quantity = cart[i].Quantity
                /\ Len(orders) = 1 /\ orders[1].id = id
                /\ Len(orderItems) = N
                /\ \A i \in 1..N :
                      /\ orderItems[i].orderId = id
                      /\ orderItems[i].productId = cart[i].ProductID
                      /\ orderItems[i].quantity = cart[i].Quantity

\* a 201 for a cart of two items, the second product first
C10_Witness ==
    \E p \in Procs :
        /\ Checkout(p) /\ Answered(p, StatusCreated)
        /\ CartOf(p) = <<Item(2, 2), Item(1, 1)>>
        /\ Len(orders) = 1 /\ Len(orderItems) = 2
        /\ orderItems[1].productId = 2 /\ orderItems[1].quantity = 2

\* the items of the orders of a history answer
HistoryItems(p) ==
    UNION {Range(resp[p].orders[i].Items) : i \in 1..Len(resp[p].orders)}

\* every stored row is still there and unchanged after the step
RowsKept(tbl, tblAfter) ==
    /\ Len(tblAfter) >= Len(tbl)
    /\ \A i \in 1..Len(tbl) : tblAfter[i] = tbl[i]

HistoryShowsStoredPrice ==
    \A p \in Procs :
        History(p) /\ Answered(p, StatusOK) =>
            \A it \in HistoryItems(p) :
                /\ it.ID \in 1..Len(orderItems)
                /\ it.Price = orderItems[it.ID].price
                /\ it.ProductID = orderItems[it.ID].productId
                /\ it.Quantity = orderItems[it.ID].quantity

\* C11: no step of the server or of the catalog's editors -- a checkout, a
\* history read, a product creation, a price change, a product removal --
\* changes or drops a stored order row or order item row, and an item of a
\* history answer carries the stored (captured) price, product id and
\* quantity whatever the catalog now says.
C11_StoredOrdersFrozen ==
    /\ [][RowsKept(orders, orders') /\ RowsKept(orderItems, orderItems')]_vars
    /\ []HistoryShowsStoredPrice

\* a history answer with an item whose product snapshot shows another
\* price than the item, and one whose product is gone from the catalog
C11_Witness ==
    \E p \in Procs :
        /\ History(p) /\ Answered(p, StatusOK)
        /\ \E it \in HistoryItems(p) :
              it.hasProduct /\ it.Product.Price = RaisedPrice /\ it.Price # RaisedPrice
        /\ 1 \notin DOMAIN products

\* the stored orders of a user that have no stored item
ItemlessOrders(userID) ==
    {o \in Range(orders) :
        o.userId = userID /\ \A k \in 1..Len(orderItems) : orderItems[k].orderId # o.id}

\* the step of goroutine p in which GetOrders runs and the storage works
HistoryRead(p) ==
    /\ History(p)
    /\ pc[p] = "query" /\ pc'[p] = "done"
    /\ faults' = faults

\* C12: a history read of a user who owns an order without items, the
\* storage working, is answered 200 and the answer holds that order with an
\* empty Items collection.
C12_ZeroItemOrderTolerated ==
    [][\A p \in Procs :
          HistoryRead(p) /\ ItemlessOrders(loc[p].userId) # {} =>
              /\ resp'[p].status = StatusOK
              /\ \A o \in ItemlessOrders(loc[p].userId) :
                    \E i \in 1..Len(resp'[p].orders) :
                        resp'[p].orders[i].ID = o.id /\ resp'[p].orders[i].Items = <<>>]_vars

\* the ids of the stored items of an order
StoredItemIds(orderId) == {k \in 1..Len(orderItems) : orderItems[k].orderId = orderId}

\* s holds every element of the set S once, by the key of its elements
HoldsEachOnce(keys, S) ==
    Len(keys) = Cardinality(S) /\ Range(keys) = S

ErrorAnswer(p) ==
    /\ Checkout(p) \/ History(p)
    /\ pc[p] = "done"
    /\ resp[p].status \notin {StatusOK, StatusCreated}

\* C14: every error answer of POST /order and GET /orders is a JSON object
\* {"error": message}, with status 401 when authentication failed, 500 when
\* a storage call failed and 400 otherwise.
C14_ErrorsAreJSON ==
    \A p \in Procs :
        ErrorAnswer(p) =>
            /\ resp[p].ctype = "application/json"
            /\ resp[p].error # ""
            /\ resp[p].status =
                  IF ~PresentsValidToken(p) THEN StatusUnauthorized
                  ELSE IF calls[p] # <<>> /\ ~calls[p][Len(calls[p])].ok
                    THEN StatusInternalServerError
                  ELSE StatusBadRequest

\* the storage calls of goroutine p that returned an error
FailedCalls(p) == {i \in 1..Len(calls[p]) : ~calls[p][i].ok}

\* C16: the first storage call of a checkout that fails is its last storage
\* call and the request is answered 500 at once; the tables then hold what
\* the earlier calls wrote: nothing when the catalog read or the header
\* insert failed, the header and the first k-1 items of the cart when the
\* k-th item insert failed.
C16_FailureEndsCheckout ==
    \A p \in Procs :
        Checkout(p) =>
            \A i \in FailedCalls(p) :
                LET k == i - 2
                    cart == CartOf(p)
                IN  /\ i = Len(calls[p])
                    /\ Answered(p, StatusInternalServerError)
                    /\ \A j \in 1..(i - 1) : calls[p][j].ok
                    /\ calls[p][i].op = IF i = 1 THEN "GetProductsByIDs"
                                        ELSE IF i = 2 THEN "CreateOrder"
                                        ELSE "CreateOrderItem"
                    /\ Len(orders) = IF i <= 2 THEN 0 ELSE 1
                    /\ Len(orderItems) = IF i <= 2 THEN 0 ELSE k - 1
                    /\ \A j \in 1..Len(orderItems) :
                          /\ orderItems[j].orderId = orders[1].id
                          /\ orderItems[j].productId = cart[j].ProductID
                          /\ orderItems[j].quantity = cart[j].Quantity

\* the insert of the second item of a cart of two failed: the header and
\* the first item are stored, the answer is 500
C16_Witness ==
    \E p \in Procs :
        /\ Checkout(p) /\ Answered(p, StatusInternalServerError)
        /\ Len(CartOf(p)) = 2
        /\ FailedCalls(p) = {4}
        /\ Len(orders) = 1 /\ Len(orderItems) = 1

\* every item of the cart names a product of the catalog and asks for no
\* more than the quantity the catalog shows
WithinStock(p) ==
    \A i \in 1..Len(CartOf(p)) :
        /\ CartOf(p)[i].ProductID \in DOMAIN products
        /\ CartOf(p)[i].Quantity <= products[CartOf(p)[i].ProductID].Quantity

\* the quantity of a product over all stored order items
OrderedQuantity(productId) ==
    SumSeq([k \in 1..Len(orderItems) |->
              IF orderItems[k].productId = productId THEN orderItems[k].quantity ELSE 0])

\* C15: checkouts leave the catalog's quantities as they are, and a checkout
\* whose items are each within the catalog's quantity is answered 201 when
\* the storage works, whatever quantities other checkouts have ordered or
\* are ordering at the same time.
C15_NoReservation ==
    /\ products = CatalogA
    /\ \A p \in Procs :
          Checkout(p) /\ pc[p] = "done" /\ FailedCalls(p) = {} /\ WithinStock(p) =>
              Answered(p, StatusCreated)

\* two overlapping checkouts of the one unit of product 1 are both answered
\* 201: the item of the second header was stored before the item of the first
C15_Witness ==
    /\ \A p \in Procs :
          Checkout(p) /\ Answered(p, StatusCreated) /\ CartOf(p) = <<Item(1, 1)>>
    /\ resp[1].order.ID # resp[2].order.ID
    /\ Len(orderItems) = 2 /\ orderItems[1].orderId = 2
    /\ OrderedQuantity(1) > products[1].Quantity

Register(p) == req[p].kind = "register"
Login(p) == req[p].kind = "login"

\* the message of the first check of a list of <<fails, message>> pairs
\* that fails, "" when none does
FirstFailed(checks) ==
    IF \E i \in 1..Len(checks) : checks[i][1]
      THEN checks[CHOOSE i \in 1..Len(checks) :
                     checks[i][1] /\ \A j \in 1..(i - 1) : ~checks[j][1]][2]
      ELSE ""

EmailChecks(email) ==
    <<<<email = <<>>, "email is required">>,
      <<~MatchEmail(email), "invalid email format">>>>

NameChecks(name, field) ==
    <<<<name = <<>>, field \o " is required">>,
      <<Len(name) < 2, field \o " must be at least 2 characters long">>,
      <<Len(name) > 50, field \o " must not exceed 50 characters">>,
      <<~MatchName(name), field \o " contains invalid characters">>>>

RegisterChecks(b) ==
    EmailChecks(b.Email)
    \o <<<<b.Password = <<>>, "password is required">>,
         <<Len(b.Password) < 8, "password must be at least 8 characters long">>,
         <<Len(b.Password) > 32, "password must not exceed 32 characters">>,
         <<~(HasNumber(b.Password) /\ HasLetter(b.Password)),
           "password must contain at least one number and one letter">>>>
    \o NameChecks(b.FirstName, "first name")
    \o NameChecks(b.LastName, "last name")

LoginChecks(b) ==
    EmailChecks(b.Email)
    \o <<<<b.Password = <<>>, "password is required">>,
         <<Len(b.Password) < 8, "password must be at least 8 characters long">>>>

\* the message the payload of goroutine p is to be refused with
Refusal(p) ==
    IF Register(p) THEN FirstFailed(RegisterChecks(req[p].body))
    ELSE FirstFailed(LoginChecks(req[p].body))

WellFormed(p) == req[p].body.json /\ Refusal(p) = ""

\* the request's email is the email of the user stored before the run
EmailTaken(p) ==
    /\ \E i \in 1..Len(users) : users[i] = StoredUser
    /\ req[p].body.Email = StoredUser.email

UnknownEmail(p) == \A i \in 1..Len(users) : users[i].email # req[p].body.Email

\* a stored user has the email, and the stored hash is no hash of the
\* password of the login
WrongPassword(p) ==
    \E i \in 1..Len(users) :
        /\ users[i].email = req[p].body.Email
        /\ \A salt \in Salts : users[i].password # HashPassword(req[p].body.Password, salt)

\* C20: a login with a well-formed payload, the lookup working, gets one and
\* the same answer when the email is unknown and when the email is known
\* and the password is wrong: 401 with the JSON error "invalid email or
\* password", no token, no user data.
C20_LoginFailuresAlike ==
    \A p \in Procs :
        /\ Login(p) /\ WellFormed(p)
        /\ pc[p] = "done" /\ FailedCalls(p) = {}
        /\ UnknownEmail(p) \/ WrongPassword(p)
        => resp[p] = WriteUserError(StatusUnauthorized, "invalid email or password", <<>>)

\* the stored user's email with another password of the right form
C20_Witness ==
    \E p \in Procs :
        /\ Login(p) /\ WellFormed(p) /\ WrongPassword(p)
        /\ Answered(p, StatusUnauthorized)
        /\ resp[p].token = <<>>

\* the stored users the login of goroutine p names with their password
LoginMatches(p) ==
    {i \in 1..Len(users) :
        /\ users[i].email = req[p].body.Email
        /\ \E salt \in Salts : users[i].password = HashPassword(req[p].body.Password, salt)}

CreatesProduct(p) == req[p].kind = "product"

ProductChecks(b) ==
    <<<<b.Name = "", "name is required">>,
      <<b.Description = "", "description is required">>,
      <<b.Image = "", "image is required">>,
      <<b.Price <= 0, "price must be greater than 0">>,
      <<b.Quantity < 0, "quantity cannot be negative">>>>

TokenRun(p) == req[p].kind = "token"

\* the decimal strings of the user ids
Decimal(n) == CASE n = 0 -> "0" [] n = 1 -> "1" [] n = 2 -> "2"

\* C23: a token CreateJWT(secret, userId) issues carries the decimal string
\* of userId and expiredAt = issue time + JWTExpiration; verified with secret
\* v at time t, VerifyJWT returns an error exactly when the signing method is
\* not an HMAC method, or v is not the signing secret, or t is later than
\* expiredAt, and returns userId otherwise.
C23_TokenRoundTrip ==
    \A p \in Procs :
        TokenRun(p) /\ pc[p] \in {"issued", "done"} =>
            LET b == req[p].body
                l == loc[p]
            IN  /\ l.token.userId = Decimal(b.userId)
                /\ l.token.expiredAt = l.issuedAt + JWTExpiration
                /\ pc[p] = "done" =>
                      /\ resp[p].err # "" <=>
                            \/ b.alg \notin {"HS256", "HS384", "HS512"}
                            \/ b.verifySecret # b.secret
                            \/ l.verifiedAt > l.issuedAt + JWTExpiration
                      /\ resp[p].err = "" => resp[p].userId = b.userId

\* a token of CreateJWT verified in the last second of its life
C23_Witness ==
    \E p \in Procs :
        /\ TokenRun(p) /\ pc[p] = "done"
        /\ req[p].body.alg = "HS256"
        /\ loc[p].verifiedAt = loc[p].issuedAt + JWTExpiration
        /\ resp[p].err = "" /\ resp[p].userId = 2

\* sum over the cart of quantity x price of the product in the catalog
CatalogSum(p) ==
    SumSeq([i \in 1..Len(CartOf(p)) |->
              CartOf(p)[i].Quantity * products[CartOf(p)[i].ProductID].Price])

\* C24: every row of the orders table was inserted by the checkout with
\* status "pending", the address of the request body, the user of the
\* request's token as owner (whatever user the body names) and the sum of
\* quantity x catalog price over the cart as total.
C24_HeaderAsComputed ==
    \A p \in Procs :
        Checkout(p) =>
            /\ Len(orders) <= 1
            /\ Len(orders) = 1 =>
                  /\ PresentsValidToken(p)
                  /\ orders[1].status = "pending"
                  /\ orders[1].address = req[p].body.address
                  /\ orders[1].userId = TokenUser(p)
                  /\ orders[1].total = CatalogSum(p)
            /\ orders # <<>> <=> HeaderInserted(p)

\* user 1 checks out with a body that names user 2
C24_Witness ==
    \E p \in Procs :
        /\ Checkout(p) /\ HeaderInserted(p)
        /\ req[p].body.userID = 2
        /\ orders[1].userId = 1
        /\ orders[1].total = 1500

C26_HistoryOnlyOwnOrders ==
    \A p \in Procs :
        History(p) /\ Answered(p, StatusOK) =>
            /\ Len(req[p].header) = 2
            /\ req[p].header[2] \in DOMAIN JWTs
            /\ \A i \in 1..Len(resp[p].orders) :
                  LET o == resp[p].orders[i]
                  IN  /\ o.UserID = TokenUser(p)
                      /\ o.ID \in 1..Len(orders)
                      /\ orders[o.ID].userId = TokenUser(p)
                      /\ \A j \in 1..Len(o.Items) :
                            /\ o.Items[j].OrderID = o.ID
                            /\ o.Items[j].ID \in 1..Len(orderItems)
                            /\ orderItems[o.Items[j].ID].orderId = o.ID

\* both users have checked out; the first user's history holds one order
C26_Witness ==
    \E p \in Procs :
        /\ History(p) /\ Answered(p, StatusOK)
        /\ Len(resp[p].orders) = 1
        /\ resp[p].orders[1].UserID = 1
        /\ resp[p].orders[1].Items # <<>>
        /\ \E k \in 1..Len(orders) : orders[k].userId = 2
        /\ \E k \in 1..Len(orderItems) : orders[orderItems[k].orderId].userId = 2

\* C27: no step of a checkout, succeeding or failing, changes the catalog,
\* and the products a checkout reads are the catalog's rows as they were
\* before any checkout: the quantities are not reduced by what was ordered.
C27_CheckoutLeavesCatalog ==
    [][/\ products' = products
       /\ \A p \in Procs :
             Checkout(p) /\ pc[p] = "products" /\ pc'[p] = "create" =>
                 \A id \in DOMAIN loc'[p].productMap :
                     loc'[p].productMap[id] = CatalogA[id]]_vars

\* the only goroutine that has worked stored an order of the one unit of
\* product 1 and, in its next checkout, reads one unit again
C27_Witness ==
    \E p, q \in Procs :
        /\ pc[q] = "idle"
        /\ Checkout(p) /\ pc[p] = "create"
        /\ Len(orderItems) = 1
        /\ orderItems[1].productId = 1 /\ orderItems[1].quantity = 1
        /\ 1 \in DOMAIN loc[p].productMap
        /\ loc[p].productMap[1].Quantity = 1
        /\ products[1].Quantity = 1

\* C28: every stored order item has a quantity of at least 1 and every
\* stored order a total of at least 0; a checkout whose cart has an item of
\* quantity zero or less inserts neither an order nor an order item.
C28_QuantitiesPositive ==
    /\ \A k \in 1..Len(orderItems) : orderItems[k].quantity >= 1
    /\ \A k \in 1..Len(orders) : orders[k].total >= 0
    /\ \A p \in Procs :
          /\ Checkout(p) /\ req[p].body.json /\ req[p].body.hasItems
          /\ \E i \in 1..Len(CartOf(p)) : CartOf(p)[i].Quantity <= 0
          => orders = <<>> /\ orderItems = <<>>

\* the header insert of goroutine p's request returned the order id n
OwnHeader(p, n) ==
    \E i \in 1..Len(calls[p]) :
        calls[p][i].op = "CreateOrder" /\ calls[p][i].ok /\ calls[p][i].orderId = n

\* goroutine p inserts an order item in this step
ItemInsert(p) ==
    /\ Checkout(p) /\ pc[p] = "items"
    /\ calls'[p] # calls[p]
    /\ Len(orderItems') = Len(orderItems) + 1

\* C29: however checkouts interleave, an order item is inserted with the
\* order id that the header insert of its own request returned, an id that
\* no other request in progress or answered got; the stored orders have
\* distinct ids, and two checkouts answered 201 carry different order ids.
C29_ItemsJoinOwnOrder ==
    [][/\ \A p \in Procs :
             ItemInsert(p) =>
                 LET row == orderItems'[Len(orderItems')]
                 IN  /\ OwnHeader(p, row.orderId)
                     /\ \A q \in Procs \ {p} : ~OwnHeader(q, row.orderId)
                     /\ row.orderId \in 1..Len(orders)
                     /\ orders[row.orderId].userId = loc[p].userId
       /\ \A i, j \in 1..Len(orders') : orders'[i].id = orders'[j].id => i = j
       /\ \A p, q \in Procs :
             /\ p # q
             /\ Checkout(p) /\ pc'[p] = "done" /\ resp'[p].status = StatusCreated
             /\ Checkout(q) /\ pc'[q] = "done" /\ resp'[q].status = StatusCreated
             /\ req'[p] = req[p] /\ req'[q] = req[q]
             => resp'[p].order.ID # resp'[q].order.ID]_vars

\* two checkouts of two items each, answered 201, whose item inserts
\* alternated
C29_Witness ==
    /\ \A p \in Procs : Checkout(p) /\ Answered(p, StatusCreated)
    /\ Len(orderItems) = 4
    /\ orderItems[1].orderId = 1 /\ orderItems[2].orderId = 2
    /\ orderItems[3].orderId = 1 /\ orderItems[4].orderId = 2
    /\ req[1].header # req[2].header

\* the goroutines whose registration was answered with the status code
AnsweredWith(code) == {p \in Procs : Register(p) /\ Answered(p, code)}

\* C30: however two registrations interleave their existence check and
\* their insert, the table never holds two users of one email; of the
\* requests for one email at most one is answered 201; the table holds one
\* user per 201; a request whose insert is refused is answered 500 with an
\* error.
C30_OneUserPerEmail ==
    /\ \A i, j \in 1..Len(users) : users[i].email = users[j].email => i = j
    /\ \A p, q \in AnsweredWith(StatusCreated) :
          req[p].body.Email = req[q].body.Email => p = q
    /\ Len(users) = Cardinality(AnsweredWith(StatusCreated))
    /\ \A p \in Procs :
          /\ Register(p) /\ pc[p] = "done"
          /\ Len(calls[p]) = 2 /\ ~calls[p][2].ok
          => /\ resp[p].status = StatusInternalServerError
             /\ resp[p].error = "error creating user: %w"

\* both requests name one email with different passwords, both found no
\* user, the storage never failed on its own: one is answered 201, the
\* other 500, and the one user holds the winner's password
C30_Witness ==
    /\ req[1].body.Email = req[2].body.Email
    /\ req[1].body.Password # req[2].body.Password
    /\ faults = 0
    /\ \A p \in Procs : Register(p) /\ pc[p] = "done" /\ Len(calls[p]) = 2
    /\ Answered(2, StatusCreated) /\ Answered(1, StatusInternalServerError)
    /\ Len(users) = 1 /\ users[1].password = loc[2].user.password

====
